---------------------------- MODULE Spec2Model ----------------------------
(* A model of src/Project2/app.py: a Flask service keeping todo records in *)
(* one in-memory dict, with pydantic models validating the request bodies. *)
(*                                                                          *)
(* Strings are sequences of one-character strings.  JSON values are the    *)
(* records Absent (key not in the dict), Null, Str(s) and Bool(b).  A JSON *)
(* object with the keys title, description, completed is a record of three *)
(* JSON values.  A timestamp is the clock reading it was taken at;         *)
(* isoformat() is one-to-one and order-preserving on readings, and the     *)
(* handlers only store and return it.                                       *)
EXTENDS Integers, Sequences, FiniteSets, TLC

\* ------------------------------------------------------------------ bounds
\* How many identifiers uuid4() can hand out in one run.
MaxIds == 2
\* The largest reading of the clock.
MaxClock == 1
\* How many requests are handled in one run.
MaxRequests == 4
\* How many requests run concurrently in SpecConc.
MaxThreads == 3

\* ------------------------------------------------------- program constants
TITLE_MIN_LENGTH == 1
TITLE_MAX_LENGTH == 200
DESCRIPTION_MAX_LENGTH == 1000

UUIDs == 1..MaxIds
Threads == 1..MaxThreads
NoId == 0

\* ------------------------------------------------------------- JSON values
\* Absent is a key that is not in the object; Array stands for a JSON array or
\* object given as the value of a key, its contents left out; numbers are
\* integers.
Absent == [t |-> "absent", s |-> <<>>, b |-> FALSE, n |-> 0]
Null == [t |-> "null", s |-> <<>>, b |-> FALSE, n |-> 0]
Str(x) == [t |-> "str", s |-> x, b |-> FALSE, n |-> 0]
Bool(x) == [t |-> "bool", s |-> <<>>, b |-> x, n |-> 0]
Num(x) == [t |-> "int", s |-> <<>>, b |-> FALSE, n |-> x]
Array == [t |-> "array", s |-> <<>>, b |-> FALSE, n |-> 0]

Dict(ti, de, co) == [title |-> ti, description |-> de, completed |-> co]
EmptyDict == Dict(Absent, Absent, Absent)

\* n copies of the character c
Rep(c, n) == [i \in 1..n |-> c]

\* --------------------------------------------------------------- str.strip
\* A character that has no escape in a string of this module is written as
\* the name of its code point: "U+2003" is the one character U+2003.
\*
\* Faulty strip: only the whitespace of ASCII is removed.
WhitespaceAscii == { " ", "\t", "\n", "\r", "\f", "U+000B" }

\* The characters str.strip() removes, those str.isspace() holds of: U+0009 to
\* U+000D, U+001C to U+001F, U+0020, U+0085, U+00A0, U+1680, U+2000 to U+200A,
\* U+2028, U+2029, U+202F, U+205F and U+3000.
Whitespace ==
    { "\t", "\n", "U+000B", "\f", "\r", "U+001C", "U+001D", "U+001E", "U+001F",
      " ", "U+0085", "U+00A0", "U+1680", "U+2000", "U+2001", "U+2002",
      "U+2003", "U+2004", "U+2005", "U+2006", "U+2007", "U+2008", "U+2009",
      "U+200A", "U+2028", "U+2029", "U+202F", "U+205F", "U+3000" }

\* Faulty strip: lstrip(), the trailing whitespace is kept.
strip_left_only(s) ==
    LET idx == {i \in 1..Len(s) : s[i] \notin Whitespace}
    IN  IF idx = {} THEN <<>>
        ELSE SubSeq(s, CHOOSE i \in idx : \A j \in idx : i <= j, Len(s))

\* str.strip(): the string without its leading and trailing whitespace
strip(s) ==
    LET idx == {i \in 1..Len(s) : s[i] \notin Whitespace}
    IN  IF idx = {} THEN <<>>
        ELSE LET first == CHOOSE i \in idx : \A j \in idx : i <= j
                 trail == CHOOSE k \in 0..Len(s) :
                              /\ \A j \in (Len(s) - k + 1)..Len(s) : s[j] \in Whitespace
                              /\ s[Len(s) - k] \notin Whitespace
             IN  SubSeq(s, first, Len(s) - trail)

\* str.lower() on the letters A to Z; the words a boolean is read from hold
\* no other letter, and no other character lowers to one of theirs
Upper ==
    <<"A", "B", "C", "D", "E", "F", "G", "H", "I", "J", "K", "L", "M",
      "N", "O", "P", "Q", "R", "S", "T", "U", "V", "W", "X", "Y", "Z">>
Lower ==
    <<"a", "b", "c", "d", "e", "f", "g", "h", "i", "j", "k", "l", "m",
      "n", "o", "p", "q", "r", "s", "t", "u", "v", "w", "x", "y", "z">>
lower(s) ==
    [i \in 1..Len(s) |->
        IF \E k \in 1..Len(Upper) : Upper[k] = s[i]
        THEN Lower[CHOOSE k \in 1..Len(Upper) : Upper[k] = s[i]]
        ELSE s[i]]

\* str(n) of an integer, str(b) of a boolean
Digits == <<"0", "1", "2", "3", "4", "5", "6", "7", "8", "9">>
RECURSIVE decimal(_)
decimal(n) ==
    IF n < 10 THEN <<Digits[n + 1]>>
    ELSE Append(decimal(n \div 10), Digits[(n % 10) + 1])
str(v) ==
    IF v.t = "bool"
    THEN IF v.b THEN <<"T", "r", "u", "e">> ELSE <<"F", "a", "l", "s", "e">>
    ELSE IF v.n < 0 THEN <<"-">> \o decimal(0 - v.n) ELSE decimal(v.n)

\* ------------------------------------------------------ pydantic validation
\* The source imports pydantic and pins no version: `validator` and
\* Field(...) are run by pydantic 1.x and, deprecated, by pydantic 2.x, and
\* the two differ in what they coerce and in what errors() lists.
Pydantic == {1, 2}

\* A field after validation: v is the value, err the type of its entry in
\* ValidationError.errors() ("" for none).
Field(v, err) == [v |-> v, err |-> err]

\* The error types, pydantic 1.x and 2.x.
Missing(pydantic) == IF pydantic = 1 THEN "value_error.missing" ELSE "missing"
NoneStr(pydantic) ==
    IF pydantic = 1 THEN "type_error.none.not_allowed" ELSE "string_type"
NoneBool(pydantic) ==
    IF pydantic = 1 THEN "type_error.none.not_allowed" ELSE "bool_type"
NotStr(pydantic) == IF pydantic = 1 THEN "type_error.str" ELSE "string_type"
NotBool(pydantic) == IF pydantic = 1 THEN "type_error.bool" ELSE "bool_type"
BoolParsing(pydantic) == IF pydantic = 1 THEN "type_error.bool" ELSE "bool_parsing"
TooShort(pydantic) ==
    IF pydantic = 1 THEN "value_error.any_str.min_length" ELSE "string_too_short"
TooLong(pydantic) ==
    IF pydantic = 1 THEN "value_error.any_str.max_length" ELSE "string_too_long"

\* @validator('title', pre=True), the same in TodoCreate and TodoUpdate
validate_and_strip_title(v) ==
    IF v.t = "str"
    THEN IF Len(strip(v.s)) = 0 THEN Field(v, "value_error")
         ELSE Field(Str(strip(v.s)), "")
    ELSE Field(v, "")

\* @validator('description', pre=True), the same in TodoCreate and TodoUpdate
validate_and_strip_description(v) ==
    IF v.t = "str"
    THEN Field(IF Len(strip(v.s)) # 0 THEN Str(strip(v.s)) ELSE Null, "")
    ELSE Field(v, "")

\* The annotation str on what the pre-validator returned: pydantic 1.x turns
\* a number or a boolean into str(v), pydantic 2.x takes a string only.
str_validator(f, pydantic) ==
    IF f.err # "" \/ f.v.t \in {"str", "null"} THEN f
    ELSE IF pydantic = 1 /\ f.v.t \in {"bool", "int"} THEN Field(Str(str(f.v)), "")
    ELSE Field(f.v, NotStr(pydantic))

\* Faulty length check: max_length is not enforced.
length_check_no_max(f, min, max, pydantic) ==
    IF f.err # "" \/ f.v.t # "str" THEN f
    ELSE IF Len(f.v.s) < min THEN Field(f.v, TooShort(pydantic))
    ELSE f

\* Field(min_length=..., max_length=...) on a string
length_check(f, min, max, pydantic) ==
    IF f.err # "" \/ f.v.t # "str" THEN f
    ELSE IF Len(f.v.s) < min THEN Field(f.v, TooShort(pydantic))
    ELSE IF Len(f.v.s) > max THEN Field(f.v, TooLong(pydantic))
    ELSE f

\* The words and numbers a boolean is read from
BOOL_TRUE ==
    {<<"1">>, <<"o", "n">>, <<"t">>, <<"t", "r", "u", "e">>, <<"y">>,
     <<"y", "e", "s">>}
BOOL_FALSE ==
    {<<"0">>, <<"o", "f", "f">>, <<"f">>, <<"f", "a", "l", "s", "e">>, <<"n">>,
     <<"n", "o">>}

\* The annotation bool: a boolean; 1 and 0; the words above, in any case
bool_validator(v, pydantic) ==
    CASE v.t = "bool" -> Field(v, "")
      [] v.t = "str" ->
             IF lower(v.s) \in BOOL_TRUE THEN Field(Bool(TRUE), "")
             ELSE IF lower(v.s) \in BOOL_FALSE THEN Field(Bool(FALSE), "")
             ELSE Field(v, BoolParsing(pydantic))
      [] v.t = "int" ->
             IF v.n = 1 THEN Field(Bool(TRUE), "")
             ELSE IF v.n = 0 THEN Field(Bool(FALSE), "")
             ELSE Field(v, BoolParsing(pydantic))
      [] OTHER -> Field(v, NotBool(pydantic))

\* title: str = Field(..., min_length=1, max_length=200)
create_title(v, pydantic) ==
    IF v.t = "absent" THEN Field(v, Missing(pydantic))
    ELSE IF v.t = "null" THEN Field(v, NoneStr(pydantic))
    ELSE length_check(str_validator(validate_and_strip_title(v), pydantic),
                      TITLE_MIN_LENGTH, TITLE_MAX_LENGTH, pydantic)

\* title: Optional[str] = Field(default=None, min_length=1, max_length=200)
update_title(v, pydantic) ==
    IF v.t \in {"absent", "null"} THEN Field(Null, "")
    ELSE length_check(str_validator(validate_and_strip_title(v), pydantic),
                      TITLE_MIN_LENGTH, TITLE_MAX_LENGTH, pydantic)

\* description: Optional[str] = Field(default=None, max_length=1000)
model_description(v, pydantic) ==
    IF v.t \in {"absent", "null"} THEN Field(Null, "")
    ELSE length_check(str_validator(validate_and_strip_description(v), pydantic),
                      0, DESCRIPTION_MAX_LENGTH, pydantic)

\* completed: bool = Field(default=False)
create_completed(v, pydantic) ==
    IF v.t = "absent" THEN Field(Bool(FALSE), "")
    ELSE IF v.t = "null" THEN Field(v, NoneBool(pydantic))
    ELSE bool_validator(v, pydantic)

\* completed: Optional[bool] = Field(default=None)
update_completed(v, pydantic) ==
    IF v.t \in {"absent", "null"} THEN Field(Null, "")
    ELSE bool_validator(v, pydantic)

\* What errors() lists for a field that failed: its name, the type of the
\* error and, from pydantic 2.x for a ValueError a validator raised, a ctx
\* that holds the exception object itself.
Error(loc, type, pydantic) ==
    [loc |-> loc, type |-> type,
     ctx |-> IF pydantic = 2 /\ type = "value_error" THEN "ValueError" ELSE ""]

\* The model built from its fields; errors is ValidationError.errors().
Model(ti, de, co, pydantic) ==
    [title |-> ti.v, description |-> de.v, completed |-> co.v,
     errors |-> {Error(f[1], f[2].err, pydantic) :
                    f \in {g \in {<<"title", ti>>, <<"description", de>>,
                                  <<"completed", co>>} : g[2].err # ""}}]

\* TodoCreate(**data)
TodoCreate(data, pydantic) ==
    Model(create_title(data.title, pydantic),
          model_description(data.description, pydantic),
          create_completed(data.completed, pydantic), pydantic)

\* TodoUpdate(**data)
TodoUpdate(data, pydantic) ==
    Model(update_title(data.title, pydantic),
          model_description(data.description, pydantic),
          update_completed(data.completed, pydantic), pydantic)

\* ---------------------------------------------------------- request bodies
\* What a request carries as its body:
\*   "malformed"  Content-Type: application/json and a body that is not JSON
\*   "empty"      Content-Type: application/json and a body of zero bytes
\*   "no_body"    no body and no JSON content type
\*   "null"       the JSON value null
\*   "list"       a non-empty JSON array
\*   "dict"       the JSON object d
Body(k, d) == [k |-> k, d |-> d]

SP == " "
\* One of each character Python counts as whitespace, in code point order.
Blanks ==
    << "\t", "\n", "U+000B", "\f", "\r", "U+001C", "U+001D", "U+001E", "U+001F",
       " ", "U+0085", "U+00A0", "U+1680", "U+2000", "U+2001", "U+2002",
       "U+2003", "U+2004", "U+2005", "U+2006", "U+2007", "U+2008", "U+2009",
       "U+200A", "U+2028", "U+2029", "U+202F", "U+205F", "U+3000" >>
Milk == <<"B", "u", "y", SP, "m", "i", "l", "k">>
BuyMilk == <<SP, SP>> \o Milk \o <<SP, SP>>
\* s with every whitespace character before it and after it
Padded(s) == Blanks \o s \o Blanks
\* A title between two characters that look blank and are no whitespace:
\* U+200B ZERO WIDTH SPACE and U+FEFF ZERO WIDTH NO-BREAK SPACE.
Edged == <<"U+200B", "x", SP, "y", "U+FEFF">>
LongTitle == Rep("t", TITLE_MAX_LENGTH)
TooLongTitle == Rep("t", TITLE_MAX_LENGTH + 1)
Eggs == <<"e", "g", "g", "s">>
TooLongDescription == Rep("d", DESCRIPTION_MAX_LENGTH + 1)
Blank == <<SP, "\t", "\f">>
Yes == <<"Y", "e", "s">>
Abc == <<"a", "b", "c">>

Payloads ==
    { EmptyDict,
      Dict(Str(BuyMilk), Absent, Absent),
      Dict(Str(BuyMilk), Str(Padded(Eggs)), Bool(TRUE)),
      Dict(Str(Padded(LongTitle)), Str(<<>>), Absent),
      Dict(Str(BuyMilk), Null, Bool(FALSE)),
      Dict(Str(Padded(TooLongTitle)), Str(Eggs), Bool(TRUE)),
      Dict(Str(<<>>), Str(TooLongDescription), Absent),
      Dict(Str(Blank), Str(Eggs), Bool(TRUE)),
      Dict(Null, Absent, Bool(TRUE)),
      Dict(Str(BuyMilk), Str(Padded(TooLongDescription)), Absent),
      Dict(Absent, Str(Blank), Absent),
      Dict(Absent, Absent, Bool(TRUE)),
      Dict(Bool(TRUE), Num(12), Num(1)),
      Dict(Absent, Absent, Str(Yes)),
      Dict(Str(BuyMilk), Array, Str(Abc)),
      Dict(Str(Padded(Edged)), Str(Blanks), Absent),
      Dict(Str(Blanks), Absent, Absent) }

Bodies ==
    {Body(k, EmptyDict) : k \in {"malformed", "empty", "no_body", "null", "list"}}
    \cup {Body("dict", d) : d \in Payloads}

\* request.get_json(): what it returns (raised = "") or the exception it
\* raises.  A body that does not parse makes on_json_loading_failed raise
\* BadRequest.  Without a JSON content type Flask before 2.1 returns None and
\* Flask from 2.1 on raises UnsupportedMediaType: the source pins no version,
\* so both are outcomes.
Got(raised, k, d) == [raised |-> raised, k |-> k, d |-> d]
get_json(body) ==
    CASE body.k \in {"malformed", "empty"} -> {Got("BadRequest", "none", EmptyDict)}
      [] body.k = "no_body" ->
             {Got("", "none", EmptyDict), Got("UnsupportedMediaType", "none", EmptyDict)}
      [] body.k = "null" -> {Got("", "none", EmptyDict)}
      [] body.k = "list" -> {Got("", "list", EmptyDict)}
      [] body.k = "dict" -> {Got("", "dict", body.d)}

\* `not data`: None and the empty dict are falsy
falsy(data) == data.k = "none" \/ (data.k = "dict" /\ data.d = EmptyDict)

\* The validation tables: what TodoCreate and TodoUpdate make of every
\* payload, under one pydantic or the other.
CreateModels == [d \in Payloads |-> {TodoCreate(d, pydantic) : pydantic \in Pydantic}]
UpdateModels == [d \in Payloads |-> {TodoUpdate(d, pydantic) : pydantic \in Pydantic}]

\* -------------------------------------------------------------------- state
VARIABLES
    todos,      \* the entries of the dict `todos`, in insertion order: a key,
                \* or NoId where a key was deleted
    heap,       \* the dict objects: heap[k] is the record created under key k,
                \* the value todos[k] refers to
    issued,     \* every identifier uuid4() has returned so far
    clock,      \* the last reading of datetime.now()
    served,     \* how many requests have been taken up
    response,   \* the answer the last step gave, NoResponse when it gave none
    threads,    \* where the request each thread serves stands
    gone        \* the keys a delete or delete-all answered 200 for

vars == <<todos, heap, issued, clock, served, response, threads, gone>>

\* ---------------------------------------------------------------- the dict
\* A dict keeps its entries in the order of insertion.  `del` leaves the
\* entry in place, emptied; a key that is set again after its `del` gets a
\* new entry at the end; clear() drops the table.  The table is rebuilt
\* without its emptied entries only by the sixth insertion into it, which
\* MaxRequests requests do not reach.
keys(d) == {d[i] : i \in 1..Len(d)} \ {NoId}
\* len(d)
dict_len(d) == Cardinality(keys(d))
\* `k in d`
dict_has(d, k) == k \in keys(d)
\* `d[k] = v` for the entries: a new key goes last, a present key stays
dict_set(d, k) == IF dict_has(d, k) THEN d ELSE Append(d, k)
\* Faulty del: the oldest entry is removed, whatever k is.
dict_del_oldest(d, k) == Tail(d)
\* Faulty del: nothing is removed.
dict_del_nothing(d, k) == d
\* `del d[k]`
dict_del(d, k) == [i \in 1..Len(d) |-> IF d[i] = k THEN NoId ELSE d[i]]
\* Faulty clear: only the oldest entry is removed.
dict_clear_one(d) == IF d = <<>> THEN d ELSE Tail(d)
\* d.clear()
dict_clear(d) == <<>>
\* The objects still referenced once the dict holds the keys of d and the
\* running requests hold the references in held.
collect(h, d, held) == [k \in (DOMAIN h) \cap (keys(d) \cup held) |-> h[k]]

\* ------------------------------------------------------------------ answers
\* jsonify(...), status: op and id name the route that answered, kind the
\* shape of the body, items its records
Response(op, id, status, kind, text, items) ==
    [op |-> op, id |-> id, status |-> status, kind |-> kind, text |-> text,
     items |-> items]
NoResponse == Response("", NoId, 0, "", "", <<>>)
NotFound(op, id) == Response(op, id, 404, "error", "Todo not found", <<>>)
BodyRequired(op, id) == Response(op, id, 400, "error", "Request body is required", <<>>)
\* except Exception as e: return jsonify({"error": str(e)}), 500
ServerError(op, id, e) == Response(op, id, 500, "error", e, <<>>)

\* An exception that leaves the handler: Flask answers 500.
InternalServerError(op, id) ==
    Response(op, id, 500, "error", "Internal Server Error", <<>>)

\* except ValidationError as e:
\*     return jsonify({"error": "Validation error", "details": e.errors()}), 400
\* jsonify cannot serialise an exception object: with one in a ctx it raises
\* TypeError inside the except clause, and Flask answers 500.
validation_error(op, id, errors) ==
    IF \E e \in errors : e.ctx # ""
    THEN InternalServerError(op, id)
    ELSE Response(op, id, 400, "error", "Validation error", <<>>)

\* Faulty uuid4: any identifier, used before or not.
uuid4_any(used) == UUIDs

\* uuid.uuid4(): a random 122-bit value, taken as one never returned before
uuid4(used) == UUIDs \ used

Todo(id, title, description, completed, created_at, updated_at) ==
    [id |-> id, title |-> title, description |-> description,
     completed |-> completed, created_at |-> created_at, updated_at |-> updated_at]

\* The iterator of `for todo in todos.values()`: used is len(todos) when it
\* was made, pos the entry it looks at next, len how many values it has yet
\* to give, list the references taken so far (todo_list).
Iter(used, pos, len, list) == [used |-> used, pos |-> pos, len |-> len, list |-> list]
NoIter == Iter(0, 0, 0, <<>>)

\* A request in flight: pc is the line it stands before, id and body what
\* it was sent, model the validated TodoCreate or TodoUpdate, ref the dict
\* object its local existing_todo / new_todo refers to once the dict or
\* another thread can reach it, now the reading of datetime.now() it holds,
\* it the iterator of get_all_todos.
NoModel == [title |-> Null, description |-> Null, completed |-> Null, errors |-> {}]
Thread(pc, id, body, model, ref, now, it) ==
    [pc |-> pc, id |-> id, body |-> body, model |-> model, ref |-> ref,
     now |-> now, it |-> it]
Idle == Thread("idle", NoId, Body("no_body", EmptyDict), NoModel, NoId, 0, NoIter)

Init ==
    /\ todos = <<>>
    /\ heap = <<>>
    /\ issued = {}
    /\ clock = 0
    /\ served = 0
    /\ response = NoResponse
    /\ threads = [t \in Threads |-> Idle]
    /\ gone = {}

\* datetime.now(): the local wall-clock time, which steps back when summer
\* time ends or the system clock is set, so a reading may be before the last
datetime_now == 0..MaxClock

\* ------------------------------------------------------------- the handlers
\* app.run() serves each request on a thread of its own and app.py takes no
\* lock, so a handler is left between any two of its accesses to `todos`, to
\* a dict object or to the clock.  A step below is one such access together
\* with the thread's own work before it; a handler is the steps of its lines.

\* The references the requests in flight hold, thread t left out.
held(t) ==
    UNION {{threads[u].ref} \cup {threads[u].it.list[i] : i \in 1..Len(threads[u].it.list)} :
              u \in Threads \ {t}} \ {NoId}

\* `d[k]` raises KeyError
key_error(d, k) == ~dict_has(d, k)

\* Faulty update: the description is assigned without the `is not None` test.
after_description_always(pc, todo_update) ==
    IF pc = "u_lookup" /\ todo_update.title # Null THEN "u_title"
    ELSE IF pc \in {"u_lookup", "u_title"} THEN "u_description"
    ELSE IF pc \in {"u_lookup", "u_title", "u_description"}
            /\ todo_update.completed # Null
    THEN "u_completed"
    ELSE "u_now"

\* The next line of update_todo that reads or writes what the threads share:
\* an `if` that finds None only reads the thread's own todo_update and is
\* passed over with the step before.
after(pc, todo_update) ==
    IF pc = "u_lookup" /\ todo_update.title # Null THEN "u_title"
    ELSE IF pc \in {"u_lookup", "u_title"} /\ todo_update.description # Null
    THEN "u_description"
    ELSE IF pc \in {"u_lookup", "u_title", "u_description"}
            /\ todo_update.completed # Null
    THEN "u_completed"
    ELSE "u_now"

\* Thread t takes up a request.  The threads differ in nothing but their
\* names: the free thread of the lowest number is the one that takes it.
Begin(t) ==
    /\ threads[t].pc = "idle"
    /\ \A u \in Threads : u < t => threads[u].pc # "idle"
    /\ served < MaxRequests
    /\ served' = served + 1

\* Thread t answers resp and is free again.
Finish(t, resp) ==
    /\ threads' = [threads EXCEPT ![t] = Idle]
    /\ response' = resp

\* Thread t goes on to the line next with the state th.
Goto(t, th) ==
    /\ threads' = [threads EXCEPT ![t] = th]
    /\ response' = NoResponse

\* GET /health
health_check(t) ==
    /\ Begin(t)
    /\ Finish(t, Response("health_check", NoId, 200, "status", "healthy", <<>>))
    /\ UNCHANGED <<todos, heap, issued, clock, gone>>

\* get_all_todos, line 114: todos.values() and the iterator over it
ga_iter(t) ==
    /\ Begin(t)
    /\ Goto(t, [Idle EXCEPT !.pc = "ga_next",
                            !.it = Iter(dict_len(todos), 1, dict_len(todos), <<>>)])
    /\ UNCHANGED <<todos, heap, issued, clock, gone>>

\* get_all_todos, line 114: the iterator's next value.  RuntimeError when
\* len(todos) is not what it was ("dictionary changed size during iteration")
\* or an entry is found after all values were given ("dictionary keys changed
\* during iteration"); no handler catches it.
ga_next(t) ==
    LET it == threads[t].it
        rest == {i \in it.pos..Len(todos) : todos[i] # NoId}
        i == CHOOSE j \in rest : \A k \in rest : j <= k
    IN  /\ threads[t].pc = "ga_next"
        /\ IF dict_len(todos) # it.used \/ (rest # {} /\ it.len = 0)
           THEN /\ Finish(t, InternalServerError("get_all_todos", NoId))
                /\ heap' = collect(heap, todos, held(t))
           ELSE IF rest = {}
           THEN /\ Goto(t, [threads[t] EXCEPT !.pc = "ga_return"])
                /\ UNCHANGED heap
           ELSE /\ Goto(t, [threads[t] EXCEPT
                               !.it = Iter(it.used, i + 1, it.len - 1,
                                           Append(it.list, todos[i]))])
                /\ UNCHANGED heap
        /\ UNCHANGED <<todos, issued, clock, served, gone>>

\* get_all_todos, line 115: return jsonify([todo for todo in todo_list]), 200
ga_return(t) ==
    LET list == threads[t].it.list IN
    /\ threads[t].pc = "ga_return"
    /\ Finish(t, Response("get_all_todos", NoId, 200, "list", "",
                          [i \in 1..Len(list) |-> heap[list[i]]]))
    /\ heap' = collect(heap, todos, held(t))
    /\ UNCHANGED <<todos, issued, clock, served, gone>>

\* get_todo, lines 121-122: if todo_id not in todos
g_check(t, todo_id) ==
    /\ Begin(t)
    /\ IF ~dict_has(todos, todo_id)
       THEN Finish(t, NotFound("get_todo", todo_id))
       ELSE Goto(t, [Idle EXCEPT !.pc = "g_read", !.id = todo_id])
    /\ UNCHANGED <<todos, heap, issued, clock, gone>>

\* get_todo, line 124, the argument: todos[todo_id]; no handler catches the
\* KeyError.  The thread holds the record from here on.
g_read(t) ==
    LET todo_id == threads[t].id IN
    /\ threads[t].pc = "g_read"
    /\ IF key_error(todos, todo_id)
       THEN Finish(t, InternalServerError("get_todo", todo_id))
       ELSE Goto(t, [threads[t] EXCEPT !.pc = "g_return", !.ref = todo_id])
    /\ UNCHANGED <<todos, heap, issued, clock, served, gone>>

\* get_todo, line 124, the call: return jsonify(...), 200 reads the record
\* the thread holds, in the store or not
g_return(t) ==
    /\ threads[t].pc = "g_return"
    /\ Finish(t, Response("get_todo", threads[t].id, 200, "todo", "",
                          <<heap[threads[t].ref]>>))
    /\ heap' = collect(heap, todos, held(t))
    /\ UNCHANGED <<todos, issued, clock, served, gone>>

\* create_todo, lines 131-147: the body, its validation, uuid4() and
\* datetime.now(); new_todo is the thread's own until line 149
c_begin(t, body) ==
    /\ Begin(t)
    /\ \E data \in get_json(body) :
          IF data.raised # ""
          THEN /\ Finish(t, ServerError("create_todo", NoId, data.raised))
               /\ UNCHANGED <<issued, clock>>
          ELSE IF falsy(data)
          THEN /\ Finish(t, BodyRequired("create_todo", NoId))
               /\ UNCHANGED <<issued, clock>>
          ELSE IF data.k # "dict"
          THEN /\ Finish(t, ServerError("create_todo", NoId, "TypeError"))
               /\ UNCHANGED <<issued, clock>>
          ELSE \E todo_data \in CreateModels[data.d] :
               IF todo_data.errors # {}
               THEN /\ Finish(t, validation_error("create_todo", NoId,
                                                  todo_data.errors))
                    /\ UNCHANGED <<issued, clock>>
               ELSE \E todo_id \in uuid4(issued), now \in datetime_now :
                       /\ issued' = issued \cup {todo_id}
                       /\ clock' = now
                       /\ Goto(t, [Idle EXCEPT !.pc = "c_store", !.id = todo_id,
                                               !.body = body, !.model = todo_data,
                                               !.now = now])
    /\ UNCHANGED <<todos, heap, gone>>

\* create_todo, line 149: todos[todo_id] = new_todo
c_store(t) ==
    LET th == threads[t]
        new_todo == Todo(th.id, th.model.title, th.model.description,
                         th.model.completed, th.now, th.now)
    IN  /\ th.pc = "c_store"
        /\ todos' = dict_set(todos, th.id)
        /\ heap' = (th.id :> new_todo) @@ heap
        /\ Goto(t, [th EXCEPT !.pc = "c_return", !.ref = th.id])
        /\ UNCHANGED <<issued, clock, served, gone>>

\* create_todo, line 150: return jsonify(new_todo), 201
c_return(t) ==
    /\ threads[t].pc = "c_return"
    /\ Finish(t, Response("create_todo", threads[t].id, 201, "todo", "",
                          <<heap[threads[t].ref]>>))
    /\ heap' = collect(heap, todos, held(t))
    /\ UNCHANGED <<todos, issued, clock, served, gone>>

\* update_todo, lines 161-162: if todo_id not in todos
u_check(t, todo_id, body) ==
    /\ Begin(t)
    /\ IF ~dict_has(todos, todo_id)
       THEN Finish(t, NotFound("update_todo", todo_id))
       ELSE Goto(t, [Idle EXCEPT !.pc = "u_lookup", !.id = todo_id, !.body = body])
    /\ UNCHANGED <<todos, heap, issued, clock, gone>>

\* update_todo, lines 165-170: the body, its validation,
\* existing_todo = todos[todo_id]
u_lookup(t) ==
    LET todo_id == threads[t].id IN
    /\ threads[t].pc = "u_lookup"
    /\ \E data \in get_json(threads[t].body) :
          IF data.raised # ""
          THEN Finish(t, ServerError("update_todo", todo_id, data.raised))
          ELSE IF falsy(data) THEN Finish(t, BodyRequired("update_todo", todo_id))
          ELSE IF data.k # "dict"
          THEN Finish(t, ServerError("update_todo", todo_id, "TypeError"))
          ELSE \E todo_update \in UpdateModels[data.d] :
               IF todo_update.errors # {}
               THEN Finish(t, validation_error("update_todo", todo_id,
                                               todo_update.errors))
               ELSE IF key_error(todos, todo_id)
               THEN Finish(t, ServerError("update_todo", todo_id, "KeyError"))
               ELSE Goto(t, [threads[t] EXCEPT
                                !.pc = after("u_lookup", todo_update),
                                !.model = todo_update, !.ref = todo_id])
    /\ UNCHANGED <<todos, heap, issued, clock, served, gone>>

\* One in-place write to the dict object existing_todo refers to.
Write(t, next, obj) ==
    /\ heap' = [heap EXCEPT ![threads[t].ref] = obj]
    /\ Goto(t, [threads[t] EXCEPT !.pc = next])
    /\ UNCHANGED <<todos, issued, clock, served, gone>>

\* update_todo, lines 173-174
u_title(t) ==
    /\ threads[t].pc = "u_title"
    /\ Write(t, after("u_title", threads[t].model),
             [heap[threads[t].ref] EXCEPT !.title = threads[t].model.title])

\* update_todo, lines 175-176
u_description(t) ==
    /\ threads[t].pc = "u_description"
    /\ Write(t, after("u_description", threads[t].model),
             [heap[threads[t].ref] EXCEPT !.description = threads[t].model.description])

\* update_todo, lines 177-178
u_completed(t) ==
    /\ threads[t].pc = "u_completed"
    /\ Write(t, "u_now",
             [heap[threads[t].ref] EXCEPT !.completed = threads[t].model.completed])

\* update_todo, line 180, the right-hand side: datetime.now().isoformat()
u_now(t) ==
    /\ threads[t].pc = "u_now"
    /\ \E now \in datetime_now :
          /\ clock' = now
          /\ Goto(t, [threads[t] EXCEPT !.pc = "u_updated_at", !.now = now])
    /\ UNCHANGED <<todos, heap, issued, served, gone>>

\* update_todo, line 180, the assignment: existing_todo["updated_at"] = ...
u_updated_at(t) ==
    /\ threads[t].pc = "u_updated_at"
    /\ Write(t, "u_store",
             [heap[threads[t].ref] EXCEPT !.updated_at = threads[t].now])

\* update_todo, line 181: todos[todo_id] = existing_todo
u_store(t) ==
    /\ threads[t].pc = "u_store"
    /\ todos' = dict_set(todos, threads[t].id)
    /\ Goto(t, [threads[t] EXCEPT !.pc = "u_return"])
    /\ UNCHANGED <<heap, issued, clock, served, gone>>

\* update_todo, line 183: return jsonify(existing_todo), 200
u_return(t) ==
    /\ threads[t].pc = "u_return"
    /\ Finish(t, Response("update_todo", threads[t].id, 200, "todo", "",
                          <<heap[threads[t].ref]>>))
    /\ heap' = collect(heap, todos, held(t))
    /\ UNCHANGED <<todos, issued, clock, served, gone>>

\* delete_todo, lines 194-195: if todo_id not in todos
d_check(t, todo_id) ==
    /\ Begin(t)
    /\ IF ~dict_has(todos, todo_id)
       THEN Finish(t, NotFound("delete_todo", todo_id))
       ELSE Goto(t, [Idle EXCEPT !.pc = "d_del", !.id = todo_id])
    /\ UNCHANGED <<todos, heap, issued, clock, gone>>

\* delete_todo, lines 197-198: del todos[todo_id]; no handler catches its
\* KeyError
d_del(t) ==
    LET todo_id == threads[t].id IN
    /\ threads[t].pc = "d_del"
    /\ IF key_error(todos, todo_id)
       THEN /\ Finish(t, InternalServerError("delete_todo", todo_id))
            /\ UNCHANGED <<todos, heap, gone>>
       ELSE /\ todos' = dict_del(todos, todo_id)
            /\ heap' = collect(heap, todos', held(t))
            /\ gone' = gone \cup {todo_id}
            /\ Finish(t, Response("delete_todo", todo_id, 200, "message",
                                  "Todo deleted successfully", <<>>))
    /\ UNCHANGED <<issued, clock, served>>

\* DELETE /todos
delete_all_todos(t) ==
    /\ Begin(t)
    /\ todos' = dict_clear(todos)
    /\ heap' = collect(heap, todos', held(t))
    /\ gone' = gone \cup keys(todos)
    /\ Finish(t, Response("delete_all_todos", NoId, 200, "message",
                          "All todos deleted successfully", <<>>))
    /\ UNCHANGED <<issued, clock>>

\* GET /todos
get_all_todos(t) == ga_iter(t) \/ ga_next(t) \/ ga_return(t)

\* GET /todos/<todo_id>
get_todo(t) ==
    (\E todo_id \in UUIDs : g_check(t, todo_id)) \/ g_read(t) \/ g_return(t)

\* POST /todos with a body of bodies
create_todo(t, bodies) ==
    (\E body \in bodies : c_begin(t, body)) \/ c_store(t) \/ c_return(t)

\* PUT /todos/<todo_id> with a body of bodies
update_todo(t, bodies) ==
    \/ \E todo_id \in UUIDs, body \in bodies : u_check(t, todo_id, body)
    \/ u_lookup(t)
    \/ u_title(t)
    \/ u_description(t)
    \/ u_completed(t)
    \/ u_now(t)
    \/ u_updated_at(t)
    \/ u_store(t)
    \/ u_return(t)

\* DELETE /todos/<todo_id>
delete_todo(t) == (\E todo_id \in UUIDs : d_check(t, todo_id)) \/ d_del(t)

\* The requests come one after the other, each answered before the next is
\* taken up: one thread serves them all.
Main == 1
Next ==
    \/ health_check(Main)
    \/ get_all_todos(Main)
    \/ get_todo(Main)
    \/ create_todo(Main, Bodies)
    \/ update_todo(Main, Bodies)
    \/ delete_todo(Main)
    \/ delete_all_todos(Main)

Spec == Init /\ [][Next]_vars

\* The requests come at any time, each on a thread of its own.
ConcCreateBodies ==
    { Body("dict", Dict(Str(Padded(LongTitle)), Str(<<>>), Absent)),
      Body("dict", Dict(Str(Blank), Str(Eggs), Bool(TRUE))),
      Body("dict", EmptyDict),
      Body("malformed", EmptyDict) }
ConcUpdateBodies ==
    { Body("dict", Dict(Str(BuyMilk), Str(Padded(Eggs)), Bool(TRUE))),
      Body("dict", EmptyDict) }

NextConc ==
    \E t \in Threads :
        \/ health_check(t)
        \/ get_all_todos(t)
        \/ get_todo(t)
        \/ create_todo(t, ConcCreateBodies)
        \/ update_todo(t, ConcUpdateBodies)
        \/ delete_todo(t)
        \/ delete_all_todos(t)

SpecConc == Init /\ [][NextConc]_vars

\* ===================================================================== claims
\* What the claims speak of, stated without the operators of the model.

\* Whitespace as the claims mean it: the characters Python's str.isspace()
\* holds of, listed in Blanks one by one.
Spaces == {Blanks[i] : i \in 1..Len(Blanks)}

\* s without its leading and trailing whitespace
RECURSIVE Trimmed(_)
Trimmed(s) ==
    IF s = <<>> THEN s
    ELSE IF Head(s) \in Spaces THEN Trimmed(Tail(s))
    ELSE IF s[Len(s)] \in Spaces THEN Trimmed(SubSeq(s, 1, Len(s) - 1))
    ELSE s

\* The store as a mapping: the record under every live key.
Live == keys(todos)
\* The last request was answered by handler op with this status.
Answered(op, status) == response.op = op /\ response.status = status
\* The store is the same before and after the step.
StoreUnchanged == todos' = todos /\ heap' = heap /\ issued' = issued
\* Every record but the one under id is the same before and after the step.
OthersUnchanged(id) ==
    /\ keys(todos') \ {id} = keys(todos) \ {id}
    /\ \A k \in keys(todos) \ {id} : heap'[k] = heap[k]

\* A value is a blank string: empty or whitespace only.
IsBlank(v) == v.t = "str" /\ Trimmed(v.s) = <<>>
\* The payload violates a field constraint, on create and on update.
BadTitle(d) ==
    d.title.t = "str" /\ (IsBlank(d.title) \/ Len(Trimmed(d.title.s)) > TITLE_MAX_LENGTH)
BadDescription(d) ==
    d.description.t = "str" /\ Len(Trimmed(d.description.s)) > DESCRIPTION_MAX_LENGTH
\* A valid create payload
ValidCreate(d) ==
    /\ d.title.t = "str" /\ ~BadTitle(d)
    /\ d.description.t \in {"absent", "null", "str"} /\ ~BadDescription(d)
    /\ d.completed.t \in {"absent", "bool"}

\* A valid update payload: every field absent or as on create
ValidUpdate(d) ==
    /\ d.title.t \in {"absent", "str"} /\ ~BadTitle(d)
    /\ d.description.t \in {"absent", "null", "str"} /\ ~BadDescription(d)
    /\ d.completed.t \in {"absent", "bool"}
ValidUpdateBodies == {b \in Bodies : b.k = "dict" /\ ValidUpdate(b.d)}

\* The valid create payloads and the record each is to give, written out:
\* the title without the whitespace around it, the description without the
\* whitespace around it or null when absent, null, empty or blank, completed
\* or false.
Normal(title, description, completed) ==
    [title |-> title, description |-> description, completed |-> completed]
Normalized ==
    (Body("dict", Dict(Str(BuyMilk), Absent, Absent))
        :> Normal(Str(Milk), Null, Bool(FALSE)))
    @@ (Body("dict", Dict(Str(BuyMilk), Str(Padded(Eggs)), Bool(TRUE)))
        :> Normal(Str(Milk), Str(Eggs), Bool(TRUE)))
    @@ (Body("dict", Dict(Str(Padded(LongTitle)), Str(<<>>), Absent))
        :> Normal(Str(LongTitle), Null, Bool(FALSE)))
    @@ (Body("dict", Dict(Str(BuyMilk), Null, Bool(FALSE)))
        :> Normal(Str(Milk), Null, Bool(FALSE)))
    @@ (Body("dict", Dict(Str(Padded(Edged)), Str(Blanks), Absent))
        :> Normal(Str(Edged), Null, Bool(FALSE)))
\* The bodies that carry a valid create payload
ValidCreateBodies == {b \in Bodies : b.k = "dict" /\ ValidCreate(b.d)}

\* Thread t answers in this step.
Answers(t) == threads[t].pc # "idle" /\ threads'[t].pc = "idle"
\* Thread t takes the step.
Steps(t) == threads'[t] # threads[t]
\* The lines of update_todo after its existence check.
UpdateLines ==
    {"u_lookup", "u_title", "u_description", "u_completed", "u_now",
     "u_updated_at", "u_store", "u_return"}
\* The records of the store in the order of their entries.
Records ==
    LET entries == SelectSeq(todos, LAMBDA k : k # NoId)
    IN  [i \in 1..Len(entries) |-> heap[entries[i]]]

\* C1: the steps of a PUT with a valid payload change only fields present in
\* the payload and updated_at: an absent title, description or completed
\* keeps its value, id and created_at never change, no other record changes,
\* updated_at becomes the time the request read; a payload of completed =
\* true alone changes only completed and updated_at; the answer of a
\* successful PUT is the record.
C1_PartialUpdateFrame ==
    [][ \A t \in Threads :
          LET th == threads[t]
              id == th.id
              body == th.body
              old == heap[id]
              new == heap'[id]
          IN  (th.pc \in UpdateLines /\ body \in ValidUpdateBodies /\ Steps(t)) =>
                /\ keys(todos') = keys(todos)
                /\ issued' = issued
                /\ OthersUnchanged(id)
                /\ new.id = old.id
                /\ new.created_at = old.created_at
                /\ new.updated_at # old.updated_at => new.updated_at = clock
                /\ body.d.title.t = "absent" => new.title = old.title
                /\ body.d.description.t = "absent" =>
                       new.description = old.description
                /\ body.d.completed.t = "absent" => new.completed = old.completed
                /\ (Answers(t) /\ response'.status = 200) =>
                       /\ response'.op = "update_todo"
                       /\ response'.items = <<new>>
                       /\ new.updated_at = th.now
                       /\ body.d = Dict(Absent, Absent, Bool(TRUE)) =>
                              new.completed = Bool(TRUE)
      ]_vars

\* C1 witness: with two records in the store, an update has turned completed
\* to true on a record that was created without it and has no description,
\* as the payload {"completed": true} does.
C1_Witness ==
    /\ Answered("update_todo", 200)
    /\ dict_len(todos) = 2
    /\ response.items[1].completed = Bool(TRUE)
    /\ response.items[1].description = Null
    /\ response.items[1] = heap[response.id]
    /\ \A t \in Threads : threads[t] = Idle

\* C2: an update whose payload carries a blank description (empty or
\* whitespace only) leaves the record with description null.
C2_BlankDescriptionClears ==
    [][ \A t \in Threads :
          (/\ threads[t].pc = "u_return"
           /\ Answers(t)
           /\ response'.status = 200
           /\ IsBlank(threads[t].body.d.description))
             => heap'[threads[t].id].description = Null
      ]_vars

\* A body that is missing, empty, an empty JSON object or not a JSON object
NoJsonObject(body) ==
    body.k \in {"malformed", "empty", "no_body", "null", "list"}
    \/ body = Body("dict", EmptyDict)

\* C3: POST /todos, and PUT on an existing id, with a body that is missing,
\* empty, an empty JSON object or not parseable as a JSON object is answered
\* 400 and leaves the store unchanged.
C3_BadBodyIs400 ==
    [][ \A t \in Threads :
          \/ \E body \in {b \in Bodies : NoJsonObject(b)} : c_begin(t, body)
          \/ threads[t].pc = "u_lookup" /\ NoJsonObject(threads[t].body) /\ Steps(t)
          => (response'.status = 400 /\ threads'[t] = Idle /\ StoreUnchanged)
      ]_vars

\* C4: a create or update whose payload violates a field constraint (title
\* absent on create, title blank, title over 200 characters or description
\* over 1000 characters after trimming) is answered 400 and leaves the store
\* unchanged.
C4_ValidationIs400 ==
    [][ \A t \in Threads :
          \/ \E body \in {b \in Bodies : b.k = "dict" /\ b.d # EmptyDict} :
               /\ c_begin(t, body)
               /\ body.d.title.t = "absent" \/ BadTitle(body.d) \/ BadDescription(body.d)
          \/ /\ threads[t].pc = "u_lookup"
             /\ threads[t].body.k = "dict"
             /\ BadTitle(threads[t].body.d) \/ BadDescription(threads[t].body.d)
             /\ Steps(t)
          => (response'.status = 400 /\ threads'[t] = Idle /\ StoreUnchanged)
      ]_vars

\* C5: get, update (whatever its body) and delete of an id that is not in the
\* store answer 404 and leave the store unchanged; a delete of an id that is
\* in the store answers 200 and removes exactly that record; and an id once
\* removed never comes back, so a second delete of it answers 404.
C5_NotFoundLeavesStore ==
    [][ /\ \A t \in Threads, id \in UUIDs \ keys(todos) :
             (\/ g_check(t, id)
              \/ d_check(t, id)
              \/ \E body \in Bodies : u_check(t, id, body))
               => /\ response'.status = 404
                  /\ response'.id = id
                  /\ threads'[t] = Idle
                  /\ StoreUnchanged
        /\ \A t \in Threads, id \in keys(todos) :
             /\ d_check(t, id) =>
                  (threads'[t].pc = "d_del" /\ threads'[t].id = id /\ StoreUnchanged)
             /\ (threads[t].pc = "d_del" /\ threads[t].id = id /\ Steps(t)) =>
                  /\ Answers(t)
                  /\ response'.op = "delete_todo"
                  /\ response'.status = 200
                  /\ keys(todos') = keys(todos) \ {id}
                  /\ OthersUnchanged(id)
                  /\ issued' = issued
        /\ \A t \in Threads : threads[t].pc = "d_del" => dict_has(todos, threads[t].id)
        /\ \A k \in gone' : ~dict_has(todos', k)
      ]_vars

\* C5 witness: a delete answered 404 for an id that was created earlier: the
\* id was deleted before.
C5_Witness ==
    /\ Answered("delete_todo", 404)
    /\ response.id \in gone
    /\ ~dict_has(todos, response.id)

\* C6: POST /todos with a valid payload draws an id that is a uuid not in the
\* store and never issued before, stores under it a record whose created_at
\* equals updated_at and whose completed is the payload's or false, so that
\* the store afterwards is the store before plus this one record, and answers
\* 201 with the record.
C6_CreateFresh ==
    [][ \A t \in Threads :
          /\ \A body \in ValidCreateBodies :
               c_begin(t, body) =>
                 /\ threads'[t].pc = "c_store"
                 /\ threads'[t].id \in UUIDs \ (issued \cup keys(todos))
                 /\ threads'[t].id # NoId
                 /\ issued' = issued \cup {threads'[t].id}
                 /\ todos' = todos /\ heap' = heap
          /\ (threads[t].pc = "c_store" /\ Steps(t)) =>
               LET id == threads[t].id
                   rec == heap'[id]
               IN  /\ threads'[t].pc = "c_return"
                   /\ id \notin keys(todos)
                   /\ keys(todos') = keys(todos) \cup {id}
                   /\ OthersUnchanged(id)
                   /\ issued' = issued
                   /\ rec.id = id
                   /\ rec.created_at = rec.updated_at
                   /\ threads[t].body \in ValidCreateBodies =>
                          rec.completed = Normalized[threads[t].body].completed
          /\ (threads[t].pc = "c_return" /\ Steps(t)) =>
               /\ Answers(t)
               /\ response'.op = "create_todo"
               /\ response'.status = 201
               /\ response'.id = threads[t].id
               /\ response'.items = <<heap[threads[t].id]>>
               /\ response'.items[1].created_at = response'.items[1].updated_at
               /\ StoreUnchanged
      ]_vars

\* C6 witness: a create answered 201 after an earlier id was issued and its
\* record deleted.
C6_Witness ==
    /\ Answered("create_todo", 201)
    /\ Cardinality(issued) = 2
    /\ Live = {response.id}
    /\ gone # {}

\* C7: the record POST /todos stores for a valid payload P has P's title
\* trimmed, P's description trimmed or null when absent or blank, and P's
\* completed or false; a step that is no update or delete of an id leaves
\* its record as it is; and GET /todos/{id} of an id in the store answers
\* 200 with the record the store holds.
C7_RoundTrip ==
    [][ /\ \A id \in Live :
             (\A t \in Threads :
                 /\ ~delete_all_todos(t)
                 /\ ~(/\ threads[t].pc \in UpdateLines \cup {"d_del"}
                      /\ threads[t].id = id
                      /\ Steps(t)))
               => (dict_has(todos', id) /\ heap'[id] = heap[id])
        /\ \A t \in Threads :
             /\ (/\ threads[t].pc = "c_store"
                 /\ threads[t].body \in ValidCreateBodies
                 /\ Steps(t)) =>
                  LET rec == heap'[threads[t].id]
                      body == threads[t].body
                  IN  /\ rec.title = Normalized[body].title
                      /\ rec.description = Normalized[body].description
                      /\ rec.completed = Normalized[body].completed
             /\ \A id \in Live :
                  /\ g_check(t, id) =>
                       /\ threads'[t].pc = "g_read"
                       /\ threads'[t].id = id
                       /\ StoreUnchanged
                  /\ (threads[t].pc = "g_read" /\ threads[t].id = id /\ Steps(t)) =>
                       /\ threads'[t].pc = "g_return"
                       /\ threads'[t].id = id
                       /\ StoreUnchanged
                  /\ (threads[t].pc = "g_return" /\ threads[t].id = id /\ Steps(t)) =>
                       /\ Answers(t)
                       /\ response'.op = "get_todo"
                       /\ response'.status = 200
                       /\ response'.items = <<heap[id]>>
                       /\ StoreUnchanged
             /\ threads[t].pc \in {"g_read", "g_return"} =>
                    dict_has(todos, threads[t].id)
      ]_vars

\* C7 witness: GET returned the record created from a title with every
\* whitespace character before and after it and a description of whitespace
\* only: the title without them, zero-width characters kept, and no
\* description.
C7_Witness ==
    /\ Answered("get_todo", 200)
    /\ response.items[1].title = Str(Edged)
    /\ response.items[1].description = Null
    /\ response.items[1].completed = Bool(FALSE)

\* C8: DELETE /todos always answers 200 and leaves the store empty, and
\* GET /todos answers 200 with the records of the store, so with the empty
\* list after it.
C8_DeleteAllEmpties ==
    [][ \A t \in Threads :
          /\ delete_all_todos(t) =>
               /\ response'.op = "delete_all_todos"
               /\ response'.status = 200
               /\ threads'[t] = Idle
               /\ keys(todos') = {}
               /\ heap' = <<>>
          /\ (threads[t].pc \in {"ga_next", "ga_return"} /\ Answers(t)) =>
               /\ response'.op = "get_all_todos"
               /\ response'.status = 200
               /\ response'.items = Records
               /\ keys(todos) = {} => response'.items = <<>>
               /\ StoreUnchanged
      ]_vars

\* C8 witness: GET /todos has answered the empty list after DELETE /todos
\* on a store that held a record.
C8_Witness ==
    /\ Answered("get_all_todos", 200)
    /\ response.items = <<>>
    /\ gone # {}
    /\ todos = <<>>
    /\ heap = <<>>

\* The fields of every live record: it is stored under its own id, no key
\* has two entries, its title is a string that is not blank and has at most
\* 200 characters, its description is null or a non-empty string of at most
\* 1000 characters, its completed a boolean.
RecordFields ==
    /\ \A i, j \in 1..Len(todos) :
           (todos[i] # NoId /\ todos[i] = todos[j]) => i = j
    /\ \A k \in Live :
         LET r == heap[k] IN
         /\ r.id = k
         /\ r.title.t = "str"
         /\ r.title.s # <<>>
         /\ \E i \in 1..Len(r.title.s) : r.title.s[i] \notin Spaces
         /\ Len(r.title.s) <= TITLE_MAX_LENGTH
         /\ \/ r.description = Null
            \/ /\ r.description.t = "str"
               /\ r.description.s # <<>>
               /\ Len(r.description.s) <= DESCRIPTION_MAX_LENGTH
         /\ r.completed.t = "bool"
\* The times of every live record: created, then updated, up to the last
\* reading of the clock.
RecordTimes ==
    \A k \in Live :
        heap[k].created_at <= heap[k].updated_at /\ heap[k].updated_at <= clock

\* C9: in every state, between requests and within one, the fields of every
\* live record are as RecordFields says; and, given a clock that never goes
\* backwards, updated_at is not before created_at: RecordTimes holds of the
\* empty store, and every step on which the clock does not go back keeps it.
C9_RecordInvariant ==
    [][ /\ RecordFields'
        /\ (RecordTimes /\ clock' >= clock) => RecordTimes'
      ]_vars

\* C9 witness: a live record holds a title of exactly 200 characters and was
\* updated after it was created.
C9_Witness ==
    \E k \in Live :
        /\ Len(heap[k].title.s) = TITLE_MAX_LENGTH
        /\ heap[k].updated_at > heap[k].created_at
        /\ \A t \in Threads : threads[t] = Idle

=============================================================================
